---- MODULE Spec2Model ----
(***************************************************************************)
(* Model of steam_achievements.py: request_json (GET with one retry), the  *)
(* two extractors, generate_rows / sort_rows (merge and ranking),          *)
(* write_csv and the exit-code mapping of the __main__ block.              *)
(*                                                                         *)
(* Text is a sequence of one-character strings, so that slicing,           *)
(* concatenation, rstrip and substring tests are computed as Python        *)
(* computes them.  Optional[T] is <<>> (None) or <<v>> (a value).          *)
(* A float percentage is a decimal fixed-point number counted in units of  *)
(* 10^-7, one digit finer than the six decimals that generate_rows prints. *)
(***************************************************************************)
EXTENDS Integers, Sequences, FiniteSets, TLC

VARIABLES
    pc,                 \* position of the run inside main / __main__
    api_key,            \* os.getenv("STEAM_API_KEY"): Optional text
    attempt,            \* request_json: loop variable of range(2)
    last_error,         \* request_json: Optional text
    log,                \* outcomes of the requests issued by the current call
    returned,           \* JSON returned by the latest request_json call
    global_percentages, \* PercentageMap
    schema,             \* SchemaMap
    rows,               \* result of the latest generate_rows
    prev_rows,          \* result of the generate_rows run before that one
    file,               \* output path: Optional sequence of written records
    cursor,             \* write_csv: number of rows handed to writerow
    raised,             \* exception that left main: Optional record
    exit_code,          \* Optional process exit status
    stderr              \* text printed to the error stream: Optional text

vars ==
    <<pc, api_key, attempt, last_error, log, returned, global_percentages,
      schema, rows, prev_rows, file, cursor, raised, exit_code, stderr>>

-----------------------------------------------------------------------------
(* Bounds *)

MaxKeys == 3

LongBodyLen == 203

(* Optional values *)

None == <<>>

Some(v) == <<v>>

-----------------------------------------------------------------------------
(* Text helpers *)

DigitChars ==
    <<"0", "1", "2", "3", "4", "5", "6", "7", "8", "9">>

DigitValue(c) ==
    (CHOOSE i \in 1..10 : DigitChars[i] = c) - 1

RECURSIVE Digits(_)
Digits(n) ==
    IF n < 10 THEN <<DigitChars[n + 1]>>
    ELSE Digits(n \div 10) \o <<DigitChars[(n % 10) + 1]>>

RECURSIVE ZeroPad(_, _)
ZeroPad(s, width) ==
    IF Len(s) >= width THEN s ELSE ZeroPad(<<"0">> \o s, width)

RECURSIVE DigitsValue(_)
DigitsValue(s) ==
    IF Len(s) = 0 THEN 0
    ELSE 10 * DigitsValue(SubSeq(s, 1, Len(s) - 1)) + DigitValue(s[Len(s)])

RECURSIVE Pow10(_)
Pow10(n) ==
    IF n = 0 THEN 1 ELSE 10 * Pow10(n - 1)

\* needle in haystack (Python's substring test on str)
Contains(haystack, needle) ==
    \E i \in 0..(Len(haystack) - Len(needle)) :
        SubSeq(haystack, i + 1, i + Len(needle)) = needle

\* s[:n]
Prefix(s, n) ==
    SubSeq(s, 1, IF Len(s) < n THEN Len(s) ELSE n)

\* s.rstrip(c)
RECURSIVE RStrip(_, _)
RStrip(s, c) ==
    IF Len(s) > 0 /\ s[Len(s)] = c THEN RStrip(SubSeq(s, 1, Len(s) - 1), c)
    ELSE s

Filler(n) ==
    [i \in 1..n |-> "x"]

-----------------------------------------------------------------------------
(* Percentages: formatting and parsing *)

FRACTION_DIGITS == 6

\* round(p / 10), ties to even: the value that ".6f" prints
RoundToUnit(p) ==
    LET q == p \div 10
        r == p % 10
    IN  IF r > 5 \/ (r = 5 /\ q % 2 = 1) THEN q + 1 ELSE q

\* f"{percent:.6f}%"
FormatPercent(p) ==
    LET m == RoundToUnit(p)
        one == Pow10(FRACTION_DIGITS)
    IN  Digits(m \div one) \o <<".">>
            \o ZeroPad(Digits(m % one), FRACTION_DIGITS) \o <<"%">>

\* float(text) for a decimal "int.frac", in units of 10^-FRACTION_DIGITS
ParseFloat(text) ==
    LET dot == CHOOSE i \in 1..(Len(text) + 1) :
                   /\ i = Len(text) + 1 \/ text[i] = "."
                   /\ \A j \in 1..(i - 1) : text[j] # "."
        whole == SubSeq(text, 1, dot - 1)
        frac == SubSeq(text, dot + 1, Len(text))
    IN  DigitsValue(whole) * Pow10(FRACTION_DIGITS)
            + DigitsValue(frac) * Pow10(FRACTION_DIGITS - Len(frac))

-----------------------------------------------------------------------------
(* Merger / Sorter *)

AllKeys ==
    <<"ACH_A", "ACH_B", "ACH_C", "ACH_D", "ACH_E">>

Keys ==
    {AllKeys[i] : i \in 1..MaxKeys}

\* floats in [0, 100]: 5.0 and 42.0000004
Percents ==
    {50000000, 420000004}

META_VISIBLE ==
    [title |-> "Title", description |-> "Text", hidden |-> FALSE,
     icon |-> "icon.jpg", icon_gray |-> "gray.jpg"]

META_HIDDEN ==
    [title |-> "Secret", description |-> "", hidden |-> TRUE,
     icon |-> "icon.jpg", icon_gray |-> ""]

SchemaEntries ==
    {META_VISIBLE, META_HIDDEN}

PartialMaps(D, R) ==
    UNION {[S -> R] : S \in SUBSET D}

SchemaMaps ==
    PartialMaps(Keys, SchemaEntries)

PercentageMaps ==
    PartialMaps(Keys, Percents)

\* the orders in which a set can be iterated
Orders(S) ==
    {o \in [1..Cardinality(S) -> S] : \A k \in S : \E i \in DOMAIN o : o[i] = k}

NamesSchemaOnly(sch, gp) ==
    DOMAIN sch

\* names = set(schema.keys()) | set(global_percentages.keys())
Names(sch, gp) ==
    DOMAIN sch \cup DOMAIN gp

\* the dict appended for one name
BuildRow(name, sch, gp) ==
    LET present == name \in DOMAIN sch
    IN  [api_name |-> name,
         title |-> IF present THEN sch[name].title ELSE "",
         description |-> IF present THEN sch[name].description ELSE "",
         hidden |-> IF present /\ sch[name].hidden THEN "true" ELSE "false",
         icon |-> IF present THEN sch[name].icon ELSE "",
         icon_gray |-> IF present THEN sch[name].icon_gray ELSE "",
         global_percent |->
             IF name \in DOMAIN gp THEN FormatPercent(gp[name]) ELSE <<>>]

SortKeyAscendingPercent(row) ==
    LET percent == row.global_percent
    IN  <<IF percent = <<>> THEN 1 ELSE 0,
          IF row.hidden \in {"true", "True"} THEN 1 ELSE 0,
          IF percent # <<>> THEN ParseFloat(RStrip(percent, "%")) ELSE 0>>

SortKeyPercentBeforeHidden(row) ==
    LET percent == row.global_percent
    IN  <<IF percent = <<>> THEN 1 ELSE 0,
          IF percent # <<>> THEN 0 - ParseFloat(RStrip(percent, "%")) ELSE 0,
          IF row.hidden \in {"true", "True"} THEN 1 ELSE 0>>

\* sort_key: (missing_percent, hidden, percent_value)
SortKey(row) ==
    LET percent == row.global_percent
    IN  <<IF percent = <<>> THEN 1 ELSE 0,
          IF row.hidden \in {"true", "True"} THEN 1 ELSE 0,
          IF percent # <<>> THEN 0 - ParseFloat(RStrip(percent, "%")) ELSE 0>>

\* Python's ordering of two 3-tuples
TupleLess(a, b) ==
    \/ a[1] < b[1]
    \/ a[1] = b[1] /\ a[2] < b[2]
    \/ a[1] = b[1] /\ a[2] = b[2] /\ a[3] < b[3]

\* sorted() is stable: an item goes behind every item whose key is not
\* greater; an item is <<key, row>>, the key computed once for each row
InsertStable(sorted, item) ==
    LET n == Cardinality({i \in 1..Len(sorted) :
                              ~TupleLess(item[1], sorted[i][1])})
    IN  SubSeq(sorted, 1, n) \o <<item>> \o SubSeq(sorted, n + 1, Len(sorted))

RECURSIVE SortedItems(_)
SortedItems(items) ==
    IF Len(items) = 0 THEN <<>>
    ELSE InsertStable(SortedItems(SubSeq(items, 1, Len(items) - 1)),
                      items[Len(items)])

\* sorted(rows, key=sort_key)
sort_rows(rs) ==
    LET items == [i \in 1..Len(rs) |-> <<SortKey(rs[i]), rs[i]>>]
        sorted == SortedItems(items)
    IN  [i \in 1..Len(rs) |-> sorted[i][2]]

\* generate_rows, the set being iterated in the given order
generate_rows(sch, gp, order) ==
    sort_rows([i \in 1..Len(order) |-> BuildRow(order[i], sch, gp)])

-----------------------------------------------------------------------------
(* Texts of the program and of its environment *)

MISSING_KEY_MARKER ==
    <<"M", "i", "s", "s", "i", "n", "g", " ", "S", "T", "E", "A", "M", "_",
      "A", "P", "I", "_", "K", "E", "Y">>

MISSING_KEY_MESSAGE ==
    <<"M", "i", "s", "s", "i", "n", "g", " ", "S", "T", "E", "A", "M", "_",
      "A", "P", "I", "_", "K", "E", "Y", ".", " ", "P", "l", "e", "a", "s",
      "e", " ", "s", "e", "t", " ", "i", "t", " ", "i", "n", " ", "t", "h",
      "e", " ", "e", "n", "v", "i", "r", "o", "n", "m", "e", "n", "t", " ",
      "o", "r", " ", ".", "e", "n", "v", " ", "f", "i", "l", "e", ".">>

HTTP_PREFIX ==
    <<"H", "T", "T", "P", " ">>

API_ERROR_PREFIX ==
    <<"S", "t", "e", "a", "m", " ", "A", "P", "I", " ", "r", "e", "q", "u",
      "e", "s", "t", " ", "f", "a", "i", "l", "e", "d", " ", "w", "i", "t",
      "h", " ", "s", "t", "a", "t", "u", "s", " ">>

API_ERROR_SEP ==
    <<":", " ">>

PARSE_ERROR_PREFIX ==
    <<"F", "a", "i", "l", "e", "d", " ", "t", "o", " ", "p", "a", "r", "s",
      "e", " ", "J", "S", "O", "N", " ", "r", "e", "s", "p", "o", "n", "s",
      "e", ":", " ">>

NETWORK_ERROR_PREFIX ==
    <<"N", "e", "t", "w", "o", "r", "k", " ", "e", "r", "r", "o", "r", " ",
      "c", "o", "n", "t", "a", "c", "t", "i", "n", "g", " ", "S", "t", "e",
      "a", "m", " ", "A", "P", "I", ":", " ">>

UNKNOWN_ERROR ==
    <<"u", "n", "k", "n", "o", "w", "n", " ", "e", "r", "r", "o", "r">>

ABORTED_MESSAGE ==
    <<"A", "b", "o", "r", "t", "e", "d", " ", "b", "y", " ", "u", "s", "e",
      "r", ".">>

\* what the interpreter prints for an exception nobody catches
TRACEBACK ==
    <<"T", "r", "a", "c", "e", "b", "a", "c", "k">>

\* str(exc) of two transport-level failures of requests.get
READ_TIMED_OUT ==
    <<"R", "e", "a", "d", " ", "t", "i", "m", "e", "d", " ", "o", "u", "t", ".">>

CONNECTION_REFUSED ==
    <<"C", "o", "n", "n", "e", "c", "t", "i", "o", "n", " ", "r", "e", "f",
      "u", "s", "e", "d">>

\* str(exc) of the ValueError of response.json()
EXPECTING_VALUE ==
    <<"E", "x", "p", "e", "c", "t", "i", "n", "g", " ", "v", "a", "l", "u",
      "e">>

FORBIDDEN_BODY ==
    <<"F", "o", "r", "b", "i", "d", "d", "e", "n">>

API_KEY_VALUE ==
    <<"k", "e", "y">>

-----------------------------------------------------------------------------
(* Exceptions and the __main__ block *)

EXIT_SUCCESS == 0

EXIT_INTERRUPT == 1

EXIT_MISSING_KEY == 2

EXIT_KNOWN_ERROR == 3

\* status of an interpreter that ends on an uncaught exception
EXIT_UNCAUGHT == 1

\* an exception object; reason records which failure built it
Exception(type, message, reason) ==
    [type |-> type, message |-> message, reason |-> reason]

SteamCliError(message, reason) ==
    Exception("SteamCliError", message, reason)

\* the status the except clauses of __main__ pass to sys.exit
ExitStatus(exc) ==
    IF exc.type = "SteamCliError"
    THEN IF Contains(exc.message, MISSING_KEY_MARKER) THEN EXIT_MISSING_KEY
         ELSE EXIT_KNOWN_ERROR
    ELSE IF exc.type = "KeyboardInterrupt" THEN EXIT_INTERRUPT
    ELSE EXIT_UNCAUGHT

\* what reaches sys.stderr
ErrorStream(exc) ==
    IF exc.type = "SteamCliError" THEN exc.message
    ELSE IF exc.type = "KeyboardInterrupt" THEN ABORTED_MESSAGE
    ELSE TRACEBACK

\* an exception leaves main and ends the process
Raise(exc) ==
    /\ raised' = Some(exc)
    /\ exit_code' = Some(ExitStatus(exc))
    /\ stderr' = Some(ErrorStream(exc))
    /\ pc' = "exit"

-----------------------------------------------------------------------------
(* request_json *)

MAX_ATTEMPTS == 2

HTTP_OK == 200

EXCERPT_LEN == 200

RETRY_STATUS ==
    {500, 502, 503, 504}

Statuses ==
    {HTTP_OK, 404} \cup RETRY_STATUS

\* response.text of the failing responses: short, holding the marker of the
\* missing-key message, longer than the excerpt, and with the marker across
\* the end of the excerpt
Bodies ==
    {FORBIDDEN_BODY,
     FORBIDDEN_BODY \o API_ERROR_SEP \o MISSING_KEY_MARKER,
     Filler(LongBodyLen),
     Filler(EXCERPT_LEN - 4) \o MISSING_KEY_MARKER}

TransportMessages ==
    {READ_TIMED_OUT, CONNECTION_REFUSED}

\* what one requests.get does: it raises, or it returns a response
TransportFailure(message) ==
    [kind |-> "error", status_code |-> 0, text |-> message, json |-> None]

Response(status_code, text, json) ==
    [kind |-> "response", status_code |-> status_code, text |-> text,
     json |-> json]

KeepFirstError(prev, message) ==
    IF prev = None THEN Some(message) ELSE prev

\* last_error = str(exc)
LastErrorAfterException(prev, message) ==
    Some(message)

\* last_error = f"HTTP {response.status_code}"
LastErrorAfterStatus(status_code) ==
    Some(HTTP_PREFIX \o Digits(status_code))

RetryOnAnyAttempt(status_code, att) ==
    status_code \in RETRY_STATUS

RetryOnAnyFailure(status_code, att) ==
    status_code # HTTP_OK /\ att = 0

\* response.status_code in RETRY_STATUS and attempt == 0
ShouldRetry(status_code, att) ==
    status_code \in RETRY_STATUS /\ att = 0

ApiErrorWholeBody(status_code, text) ==
    SteamCliError(API_ERROR_PREFIX \o Digits(status_code) \o API_ERROR_SEP
                      \o text, "api")

\* the SteamCliError of a non-200 response
ApiError(status_code, text) ==
    SteamCliError(API_ERROR_PREFIX \o Digits(status_code) \o API_ERROR_SEP
                      \o Prefix(text, EXCERPT_LEN), "api")

ParseError(message) ==
    SteamCliError(PARSE_ERROR_PREFIX \o message, "parse")

\* the SteamCliError behind the loop
NetworkError(last) ==
    SteamCliError(NETWORK_ERROR_PREFIX
                      \o (IF last = None \/ last[1] = <<>> THEN UNKNOWN_ERROR
                          ELSE last[1]), "network")

InRequest ==
    pc \in {"fetch_global", "fetch_schema"} /\ attempt < MAX_ATTEMPTS

\* the requests of one call, this one included
Logged(outcome) ==
    IF attempt = 0 THEN <<outcome>> ELSE Append(log, outcome)

\* continue: the next attempt, or the raise behind the loop
Continue(error) ==
    /\ attempt' = attempt + 1
    /\ last_error' = error
    /\ IF attempt + 1 < MAX_ATTEMPTS
       THEN UNCHANGED <<pc, raised, exit_code, stderr>>
       ELSE Raise(NetworkError(error))

-----------------------------------------------------------------------------
(* The two extractors *)

\* not name
Falsy(opt) ==
    opt = None \/ opt[1] = ""

\* item.get(field, default)
Get(opt, default) ==
    IF opt = None THEN default ELSE opt[1]

\* result[name] = value
Assign(map, name, value) ==
    [k \in DOMAIN map \cup {name} |-> IF k = name THEN value ELSE map[k]]

GlobalItem(name, percent) ==
    [name |-> name, percent |-> percent]

SchemaItem(name, displayName, description, hidden, icon, icongray) ==
    [name |-> name, displayName |-> displayName, description |-> description,
     hidden |-> hidden, icon |-> icon, icongray |-> icongray]

\* the achievements lists of the global-percentages payloads; a percent of
\* None is one that float() rejects
GlobalPayloads ==
    {<<>>,
     <<GlobalItem(Some("ACH_A"), Some(420000000))>>,
     <<GlobalItem(Some("ACH_A"), Some(50000000)),
       GlobalItem(None, Some(420000000)),
       GlobalItem(Some("ACH_B"), None),
       GlobalItem(Some("ACH_C"), Some(1000000000))>>}

\* the achievements lists of the schema payloads
SchemaPayloads ==
    {<<>>,
     <<SchemaItem(Some("ACH_A"), Some("A"), Some("first"), Some(0),
                  Some("a.jpg"), Some("a_gray.jpg")),
       SchemaItem(Some("ACH_B"), Some("B"), None, Some(1), None, None)>>,
     <<SchemaItem(Some(""), Some("nameless"), None, None, None, None),
       SchemaItem(Some("ACH_C"), None, None, Some(1), Some("c.jpg"), None),
       SchemaItem(Some("ACH_D"), Some("D"), Some("fourth"), None, None,
                  None)>>}

RECURSIVE fetch_global_percentages(_)
fetch_global_percentages(achievements) ==
    IF Len(achievements) = 0 THEN <<>>
    ELSE LET result == fetch_global_percentages(
                           SubSeq(achievements, 1, Len(achievements) - 1))
             item == achievements[Len(achievements)]
         IN  IF Falsy(item.name) \/ item.percent = None THEN result
             ELSE Assign(result, item.name[1], item.percent[1])

RECURSIVE fetch_schema(_)
fetch_schema(achievements) ==
    IF Len(achievements) = 0 THEN <<>>
    ELSE LET result == fetch_schema(
                           SubSeq(achievements, 1, Len(achievements) - 1))
             item == achievements[Len(achievements)]
         IN  IF Falsy(item.name) THEN result
             ELSE Assign(result, item.name[1],
                         [title |-> Get(item.displayName, ""),
                          description |-> Get(item.description, ""),
                          hidden |-> Get(item.hidden, 0) # 0,
                          icon |-> Get(item.icon, ""),
                          icon_gray |-> Get(item.icongray, "")])

-----------------------------------------------------------------------------
(* write_csv *)

fieldnames ==
    <<"api_name", "title", "description", "hidden", "icon", "icon_gray",
      "global_percent">>

\* the record DictWriter writes for a row
CsvRecord(row) ==
    <<row.api_name, row.title, row.description, row.hidden, row.icon,
      row.icon_gray, row.global_percent>>

OSError ==
    Exception("OSError", TRACEBACK, "io")

KeyboardInterrupt ==
    Exception("KeyboardInterrupt", <<>>, "interrupt")

-----------------------------------------------------------------------------
(* One run of the program *)

Init ==
    /\ pc = "main"
    /\ api_key \in {None, Some(<<>>), Some(API_KEY_VALUE)}
    /\ attempt = 0
    /\ last_error = None
    /\ log = <<>>
    /\ returned = None
    /\ global_percentages = <<>>
    /\ schema = <<>>
    /\ rows = <<>>
    /\ prev_rows = <<>>
    /\ file = None
    /\ cursor = 0
    /\ raised = None
    /\ exit_code = None
    /\ stderr = None

\* main up to the first fetch
CheckApiKey ==
    /\ pc = "main"
    /\ IF api_key = None \/ api_key[1] = <<>>
       THEN Raise(SteamCliError(MISSING_KEY_MESSAGE, "missing_credential"))
       ELSE /\ pc' = "fetch_global"
            /\ UNCHANGED <<raised, exit_code, stderr>>
    /\ UNCHANGED <<api_key, attempt, last_error, log, returned,
                   global_percentages, schema, rows, prev_rows, file,
                   cursor>>

\* requests.get raises a RequestException
RequestFails ==
    /\ InRequest
    /\ \E message \in TransportMessages :
           /\ log' = Logged(TransportFailure(message))
           /\ Continue(LastErrorAfterException(last_error, message))
    /\ returned' = IF attempt = 0 THEN None ELSE returned
    /\ UNCHANGED <<api_key, global_percentages, schema, rows, prev_rows,
                   file, cursor>>

\* a response with a status other than 200
ResponseNotOk ==
    /\ InRequest
    /\ \E status_code \in Statuses \ {HTTP_OK}, text \in Bodies :
           /\ log' = Logged(Response(status_code, text, None))
           /\ IF ShouldRetry(status_code, attempt)
              THEN Continue(LastErrorAfterStatus(status_code))
              ELSE /\ Raise(ApiError(status_code, text))
                   /\ UNCHANGED <<attempt, last_error>>
    /\ returned' = IF attempt = 0 THEN None ELSE returned
    /\ UNCHANGED <<api_key, global_percentages, schema, rows, prev_rows,
                   file, cursor>>

\* a 200 response whose body is not JSON
ResponseNotJson ==
    /\ InRequest
    /\ log' = Logged(Response(HTTP_OK, FORBIDDEN_BODY, None))
    /\ Raise(ParseError(EXPECTING_VALUE))
    /\ returned' = IF attempt = 0 THEN None ELSE returned
    /\ UNCHANGED <<api_key, attempt, last_error, global_percentages, schema,
                   rows, prev_rows, file, cursor>>

\* fetch_global_percentages: request_json returns, the payload is extracted
GlobalFetched ==
    /\ InRequest
    /\ pc = "fetch_global"
    /\ \E data \in GlobalPayloads :
           /\ log' = Logged(Response(HTTP_OK, <<>>, Some(data)))
           /\ returned' = Some(data)
           /\ global_percentages' = fetch_global_percentages(data)
    /\ pc' = "fetch_schema"
    /\ attempt' = 0
    /\ last_error' = None
    /\ UNCHANGED <<api_key, schema, rows, prev_rows, file, cursor,
                   raised, exit_code, stderr>>

\* fetch_schema: request_json returns, the payload is extracted
SchemaFetched ==
    /\ InRequest
    /\ pc = "fetch_schema"
    /\ \E data \in SchemaPayloads :
           /\ log' = Logged(Response(HTTP_OK, <<>>, Some(data)))
           /\ returned' = Some(data)
           /\ schema' = fetch_schema(data)
    /\ pc' = "merge"
    /\ attempt' = 0
    /\ last_error' = None
    /\ UNCHANGED <<api_key, global_percentages, rows, prev_rows, file,
                   cursor, raised, exit_code, stderr>>

\* if not schema and not global_percentages: write_csv(out_path, [])
NothingFound ==
    /\ pc = "merge"
    /\ DOMAIN schema = {} /\ DOMAIN global_percentages = {}
    /\ rows' = <<>>
    /\ pc' = "open"
    /\ UNCHANGED <<api_key, attempt, last_error, log, returned,
                   global_percentages, schema, prev_rows, file, cursor,
                   raised, exit_code, stderr>>

\* rows = generate_rows(schema, global_percentages)
Merge ==
    /\ pc = "merge"
    /\ ~(DOMAIN schema = {} /\ DOMAIN global_percentages = {})
    /\ \E order \in Orders(Names(schema, global_percentages)) :
           rows' = generate_rows(schema, global_percentages, order)
    /\ pc' = "open"
    /\ UNCHANGED <<api_key, attempt, last_error, log, returned,
                   global_percentages, schema, prev_rows, file, cursor,
                   raised, exit_code, stderr>>

\* open(path, "w") creates or truncates the file
OpenFile ==
    /\ pc = "open"
    /\ file' = Some(<<>>)
    /\ cursor' = 0
    /\ pc' = "write"
    /\ UNCHANGED <<api_key, attempt, last_error, log, returned,
                   global_percentages, schema, rows, prev_rows, raised,
                   exit_code, stderr>>

\* open(path, "w") raises: the path cannot be opened for writing
OpenFails ==
    /\ pc = "open"
    /\ Raise(OSError)
    /\ UNCHANGED <<api_key, attempt, last_error, log, returned,
                   global_percentages, schema, rows, prev_rows, file,
                   cursor>>

\* writer.writeheader()
WriteHeader ==
    /\ pc = "write"
    /\ file = Some(<<>>)
    /\ file' = Some(<<fieldnames>>)
    /\ UNCHANGED <<pc, api_key, attempt, last_error, log, returned,
                   global_percentages, schema, rows, prev_rows, cursor,
                   raised, exit_code, stderr>>

\* writer.writerow(row)
WriteRow ==
    /\ pc = "write"
    /\ file # Some(<<>>)
    /\ cursor < Len(rows)
    /\ file' = Some(Append(file[1], CsvRecord(rows[cursor + 1])))
    /\ cursor' = cursor + 1
    /\ UNCHANGED <<pc, api_key, attempt, last_error, log, returned,
                   global_percentages, schema, rows, prev_rows, raised,
                   exit_code, stderr>>

\* a write to the open file raises (the device is full, the medium fails);
\* the with statement closes the file and what was written stays
WriteFails ==
    /\ pc = "write"
    /\ Raise(OSError)
    /\ UNCHANGED <<api_key, attempt, last_error, log, returned,
                   global_percentages, schema, rows, prev_rows, file,
                   cursor>>

\* the file is closed, main prints its message and returns 0
Finish ==
    /\ pc = "write"
    /\ file # Some(<<>>)
    /\ cursor = Len(rows)
    /\ exit_code' = Some(EXIT_SUCCESS)
    /\ pc' = "exit"
    /\ UNCHANGED <<api_key, attempt, last_error, log, returned,
                   global_percentages, schema, rows, prev_rows, file,
                   cursor, raised, stderr>>

\* the user interrupts the run: KeyboardInterrupt
Interrupt ==
    /\ pc \in {"main", "fetch_global", "fetch_schema", "merge", "open",
               "write"}
    /\ Raise(KeyboardInterrupt)
    /\ UNCHANGED <<api_key, attempt, last_error, log, returned,
                   global_percentages, schema, rows, prev_rows, file,
                   cursor>>

Next ==
    \/ CheckApiKey
    \/ RequestFails
    \/ ResponseNotOk
    \/ ResponseNotJson
    \/ GlobalFetched
    \/ SchemaFetched
    \/ NothingFound
    \/ Merge
    \/ OpenFile
    \/ OpenFails
    \/ WriteHeader
    \/ WriteRow
    \/ WriteFails
    \/ Finish
    \/ Interrupt

Spec ==
    Init /\ [][Next]_vars

-----------------------------------------------------------------------------
(* The Merger/Sorter on its own: generate_rows run on two given maps *)

InitMerge ==
    /\ pc = "generate_rows"
    /\ schema \in SchemaMaps
    /\ global_percentages \in PercentageMaps
    /\ rows = <<>>
    /\ prev_rows = <<>>
    /\ api_key = None
    /\ attempt = 0
    /\ last_error = None
    /\ log = <<>>
    /\ returned = None
    /\ file = None
    /\ cursor = 0
    /\ raised = None
    /\ exit_code = None
    /\ stderr = None

\* generate_rows on the two maps, and once more on the same two maps
GenerateRowsRun ==
    /\ pc \in {"generate_rows", "generated"}
    /\ \E order \in Orders(Names(schema, global_percentages)) :
           rows' = generate_rows(schema, global_percentages, order)
    /\ prev_rows' = rows
    /\ pc' = IF pc = "generate_rows" THEN "generated" ELSE "generated_again"
    /\ UNCHANGED <<api_key, attempt, last_error, log, returned,
                   global_percentages, schema, file, cursor, raised,
                   exit_code, stderr>>

NextMerge ==
    GenerateRowsRun

SpecMerge ==
    InitMerge /\ [][NextMerge]_vars

-----------------------------------------------------------------------------
(* Properties of the Merger/Sorter, checked under SpecMerge *)

HasPercent(row) ==
    row.global_percent # <<>>

IsHidden(row) ==
    row.hidden = "true"

\* the percentage a row shows, in units of 10^-6
PercentOf(row) ==
    ParseFloat(RStrip(row.global_percent, "%"))

Positions ==
    1..Len(rows)

Merged ==
    pc \in {"generated", "generated_again"}

UnionOfKeys ==
    DOMAIN schema \cup DOMAIN global_percentages

\* C1, as stated: of two output rows, one with a percent precedes one
\* without; of two with percents the higher percent comes first, whatever
\* the hidden flags; of two without percents the non-hidden one comes first.
C1_SortInvariantAsStated ==
    Merged =>
        \A i, j \in Positions :
            /\ HasPercent(rows[i]) /\ ~HasPercent(rows[j]) => i < j
            /\ (/\ HasPercent(rows[i]) /\ HasPercent(rows[j])
                /\ PercentOf(rows[i]) > PercentOf(rows[j])) => i < j
            /\ (/\ ~HasPercent(rows[i]) /\ ~HasPercent(rows[j])
                /\ ~IsHidden(rows[i]) /\ IsHidden(rows[j])) => i < j

\* C1, amended: of two output rows, one with a percent precedes one without;
\* of two with percents and the same hidden flag the higher percent comes
\* first; of two without percents the non-hidden one comes first.
C1_SortInvariant ==
    Merged =>
        \A i, j \in Positions :
            /\ HasPercent(rows[i]) /\ ~HasPercent(rows[j]) => i < j
            /\ (/\ HasPercent(rows[i]) /\ HasPercent(rows[j])
                /\ IsHidden(rows[i]) = IsHidden(rows[j])
                /\ PercentOf(rows[i]) > PercentOf(rows[j])) => i < j
            /\ (/\ ~HasPercent(rows[i]) /\ ~HasPercent(rows[j])
                /\ ~IsHidden(rows[i]) /\ IsHidden(rows[j])) => i < j

\* two rows with different percents and one hidden flag, before a row
\* without a percent
C1_Witness ==
    /\ Merged
    /\ \E i, j, k \in Positions :
           /\ i < j /\ j < k
           /\ HasPercent(rows[i]) /\ HasPercent(rows[j])
           /\ IsHidden(rows[i]) = IsHidden(rows[j])
           /\ PercentOf(rows[i]) > PercentOf(rows[j])
           /\ ~HasPercent(rows[k])

\* C2: generate_rows returns exactly one row per key of the union of the two
\* key sets: as many rows as the union has keys, every key the api_name of
\* exactly one row, no api_name outside the union.
C2_OneRowPerKey ==
    Merged =>
        /\ Len(rows) = Cardinality(UnionOfKeys)
        /\ \A k \in UnionOfKeys :
               Cardinality({i \in Positions : rows[i].api_name = k}) = 1
        /\ \A i \in Positions : rows[i].api_name \in UnionOfKeys

\* overlapping maps, each with a key the other lacks
C2_Witness ==
    /\ Merged
    /\ DOMAIN schema \cap DOMAIN global_percentages # {}
    /\ DOMAIN schema \ DOMAIN global_percentages # {}
    /\ DOMAIN global_percentages \ DOMAIN schema # {}
    /\ Len(rows) = Cardinality(UnionOfKeys)

\* C3: two runs of generate_rows on the same two maps return the same rows
\* in the same order.
C3_Deterministic ==
    pc = "generated_again" => rows = prev_rows

\* C4: the output ascends in (missing_percent, hidden_flag, -percent): rows
\* with a percent come before rows without; among rows that all have or all
\* lack a percent, non-hidden rows come before hidden ones; among rows with
\* a percent and one hidden flag, a higher percent comes before a lower one.
C4_AscendingSortKey ==
    Merged =>
        \A i, j \in Positions :
            /\ HasPercent(rows[i]) /\ ~HasPercent(rows[j]) => i < j
            /\ (/\ HasPercent(rows[i]) = HasPercent(rows[j])
                /\ ~IsHidden(rows[i]) /\ IsHidden(rows[j])) => i < j
            /\ (/\ HasPercent(rows[i]) /\ HasPercent(rows[j])
                /\ IsHidden(rows[i]) = IsHidden(rows[j])
                /\ PercentOf(rows[i]) > PercentOf(rows[j])) => i < j

\* a non-hidden row precedes a hidden row of a higher percent, and a hidden
\* row with a percent precedes a non-hidden row without one
C4_Witness ==
    /\ Merged
    /\ \E i, j, k \in Positions :
           /\ i < j /\ j < k
           /\ HasPercent(rows[i]) /\ ~IsHidden(rows[i])
           /\ HasPercent(rows[j]) /\ IsHidden(rows[j])
           /\ PercentOf(rows[j]) > PercentOf(rows[i])
           /\ ~HasPercent(rows[k]) /\ ~IsHidden(rows[k])

-----------------------------------------------------------------------------
(* Properties of request_json and of the run, checked under Spec *)

IsTransient(outcome) ==
    outcome.kind = "response" /\ outcome.status_code \in {500, 502, 503, 504}

IsTransportError(outcome) ==
    outcome.kind = "error"

IsNotOk(outcome) ==
    outcome.kind = "response" /\ outcome.status_code # 200

\* the call has raised the error that reports this response: its status
\* code and at most 200 characters of its body
RaisedApiErrorFor(outcome) ==
    /\ raised # None
    /\ raised[1].type = "SteamCliError"
    /\ \E n \in 0..200 :
           /\ n <= Len(outcome.text)
           /\ raised[1].message =
                  API_ERROR_PREFIX \o Digits(outcome.status_code)
                      \o API_ERROR_SEP \o SubSeq(outcome.text, 1, n)

\* the call has raised the network error that carries this text
RaisedNetworkErrorWith(text) ==
    /\ raised # None
    /\ raised[1].type = "SteamCliError"
    /\ raised[1].message = NETWORK_ERROR_PREFIX \o text

\* C5: one call issues at most two requests, and a second one only after a
\* first that raised a transport error or returned 500, 502, 503 or 504.
C5_AtMostOneRetry ==
    /\ Len(log) <= 2
    /\ Len(log) = 2 => IsTransportError(log[1]) \/ IsTransient(log[1])

\* a call that stopped after two transient responses
C5_Witness ==
    /\ Len(log) = 2
    /\ IsTransient(log[1])
    /\ IsTransient(log[2])
    /\ pc = "exit"

\* C6: a transient response followed by a 200 with JSON makes the call
\* return that JSON after two requests; a call that ends on a non-200
\* response (any second one, and a first one that is not transient) raises
\* the API-status error of that response, with its status code and at most
\* 200 characters of its body.
C6_RetryBoundary ==
    /\ (/\ Len(log) = 2
        /\ IsTransient(log[1])
        /\ log[2].kind = "response" /\ log[2].status_code = 200
        /\ log[2].json # None) => returned = log[2].json
    /\ (/\ Len(log) >= 1
        /\ IsNotOk(log[Len(log)])
        /\ Len(log) = 2 \/ ~IsTransient(log[1]))
           => RaisedApiErrorFor(log[Len(log)])

\* two transient responses, the second with a body longer than the excerpt
C6_Witness ==
    /\ Len(log) = 2
    /\ IsTransient(log[1])
    /\ IsTransient(log[2])
    /\ Len(log[2].text) > 200
    /\ RaisedApiErrorFor(log[2])

\* C7: when both attempts fail at the transport level the call raises the
\* network error with the message of the second transport error.
C7_LastTransportError ==
    (/\ Len(log) = 2
     /\ IsTransportError(log[1])
     /\ IsTransportError(log[2])) => RaisedNetworkErrorWith(log[2].text)

\* two transport errors with different messages
C7_Witness ==
    /\ Len(log) = 2
    /\ IsTransportError(log[1])
    /\ IsTransportError(log[2])
    /\ log[1].text # log[2].text
    /\ RaisedNetworkErrorWith(log[2].text)

\* the exit status each kind of failure is meant to have
StatusOfReason(reason) ==
    CASE reason = "missing_credential" -> EXIT_MISSING_KEY
      [] reason \in {"network", "api", "parse", "io"} -> EXIT_KNOWN_ERROR
      [] reason = "interrupt" -> EXIT_INTERRUPT

\* C8: a run that ends in a fatal error (missing credential, network error,
\* API error, output-file I/O error) leaves no output file behind, and the
\* output path is opened only after both fetches succeeded.
C8_NoPartialFile ==
    /\ file # None => pc \notin {"main", "fetch_global", "fetch_schema"}
    /\ (/\ pc = "exit"
        /\ raised # None
        /\ raised[1].reason # "interrupt") => file = None

\* C9: success ends with code 0, a missing credential, any other known
\* failure and a user interrupt end with three different non-zero codes,
\* and no failure ends with the code of another kind.
C9_ExitCodes ==
    pc = "exit" =>
        exit_code = Some(IF raised = None THEN EXIT_SUCCESS
                         ELSE StatusOfReason(raised[1].reason))

\* C10: the second attempt alone decides the error: a transport failure on
\* it raises the network error with its message, whatever the first attempt
\* recorded; a non-200 response on it after a transport failure raises the
\* API-status error of that response, with no further request.
C10_SecondAttemptDecides ==
    /\ (Len(log) = 2 /\ IsTransportError(log[2]))
           => RaisedNetworkErrorWith(log[2].text)
    /\ (Len(log) = 2 /\ IsTransportError(log[1]) /\ IsNotOk(log[2]))
           => RaisedApiErrorFor(log[2]) /\ attempt = 1

\* a transient response followed by a transport failure
C10_Witness ==
    /\ Len(log) = 2
    /\ IsTransient(log[1])
    /\ IsTransportError(log[2])
    /\ pc = "exit"

====
